---------------------------- MODULE Spec2Model ----------------------------
(***************************************************************************)
(* A model of the pure helpers of src/src/utils.ts:                        *)
(*   calculateLevenshteinDistance  (edit distance, dynamic programming)    *)
(*   getRandomSamples              (seeded rejection sampling)             *)
(*   chunk                         (split an array into chunks)            *)
(*   random                        (a random number between two numbers)   *)
(*   tooltipMouseEnter, tooltipMouseLeave  (the tooltip's two timers)      *)
(***************************************************************************)
EXTENDS Integers, Sequences, FiniteSets

(***************************************************************************)
(* Bounds of the model.                                                    *)
(***************************************************************************)
\* Longest input string handed to calculateLevenshteinDistance.
MaxLen == 3

\* Largest population handed to getRandomSamples, and longest array handed
\* to chunk.
MaxItems == 3

\* Numbers of a call's generator that are kept for the next call to compare.
MaxTape == 3

\* for-loop passes that are counted.
MaxPasses == 2

\* Largest max - min handed to random, and largest |min|.
MaxSpan == 4

\* Timeouts the tooltip's handlers may schedule in one run.
MaxTimers == 4

\* Unresolved computePosition promises that are counted.
MaxPoppers == 2

\* Characters the input strings are made of.
Alphabet == {"a", "b"}

\* All strings over Alphabet of length at most n.
StringsUpTo(n) == UNION {[1..k -> Alphabet] : k \in 0..n}

(***************************************************************************)
(* State.                                                                  *)
(***************************************************************************)
VARIABLES
  words,          \* the three strings the distance is taken between
  dist,           \* dist[p]: <<d>> once calculateLevenshteinDistance has
                  \* returned d for pair p, and <<>> before
  call,           \* the function being called: "none", "sample", "chunk"
  pc,             \* where the call stands
  outcome,        \* "none", "returned" or "threw"
  ret,            \* the array getRandomSamples returned
  chunks,         \* the array of arrays chunk returned
  items,          \* the array handed to the calls (items; chunk's array)
  size,           \* the size handed to the calls
  seed,           \* the seed handed to getRandomSamples
  replace,        \* the replace flag handed to getRandomSamples
  targetSize,     \* getRandomSamples: const targetSize
  sampledItems,   \* getRandomSamples: const sampledItems
  sampledIndexes, \* getRandomSamples: const sampledIndexes (0-based)
  picked,         \* the indexes accepted so far, in the order accepted
  itemIdx,        \* the index i the for loop stands at (0-based)
  passes,         \* for-loop passes begun by this call (counted up to MaxPasses)
  drawn,          \* numbers this call's generator has produced (up to MaxTape + 1)
  draws,          \* the first MaxTape numbers this call's generator produced
  isRepeat,       \* an earlier call of getRandomSamples is on record
  prev,           \* an earlier getRandomSamples call: the numbers its
                  \* generator produced and its result; or NoCall
  randMin,        \* random: min
  randMax,        \* random: max
  randUnit,       \* random: what Math.random() returned, <<numerator,
                  \* denominator>>
  randResult,     \* random: <<r>> once the call has returned r, <<>> before
  mouseenterTimer, \* TooltipConfig.mouseenterTimer: a timeout id, or Null
  mouseleaveTimer, \* TooltipConfig.mouseleaveTimer: a timeout id, or Null
  hidden,         \* tooltipElement.classList.contains('hidden')
  timeouts,       \* the timeouts scheduled so far: timeouts[id] for the id
                  \* setTimeout returned
  poppers         \* computePosition promises not yet resolved (counted up
                  \* to MaxPoppers)

levVars == <<words, dist>>

inputVars == <<items, size, seed, replace>>

callVars == <<call, pc, outcome, ret, chunks, inputVars, targetSize,
              sampledItems, sampledIndexes, picked, itemIdx,
              passes, drawn, draws, isRepeat, prev>>

randVars == <<randMin, randMax, randUnit, randResult>>

tipVars == <<mouseenterTimer, mouseleaveTimer, hidden, timeouts, poppers>>

uiVars == <<randVars, tipVars>>

vars == <<levVars, callVars, uiVars>>

\* The pairs of words the distance is computed for: <<x, y>> stands for
\* the call calculateLevenshteinDistance(words[x], words[y]).
Pairs == {<<1, 2>>, <<2, 3>>, <<1, 3>>}

(***************************************************************************)
(* calculateLevenshteinDistance, utils.ts 548-581.                         *)
(***************************************************************************)
\* Math.min of three numbers.
Min3(x, y, z) ==
  IF x <= y /\ x <= z THEN x ELSE IF y <= z THEN y ELSE z

\* LevInitDp with the second initialisation loop left out: row 0 is not
\* written beyond dp[0][0].
LevInitDpNoRow(m, n) ==
  [i \in 0..m |-> [j \in 0..n |-> IF j = 0 THEN i ELSE -1]]

\* The dp matrix after the two initialisation loops: dp[i][0] = i and
\* dp[0][j] = j; every other cell is not yet written (-1 stands for a cell
\* with no value).
LevInitDp(m, n) ==
  [i \in 0..m |-> [j \in 0..n |->
     IF i = 0 THEN j ELSE IF j = 0 THEN i ELSE -1]]

\* LevCell without the substitution term of Math.min.
LevCellNoSubstitution(dp, str1, str2, i, j) ==
  IF str1[i] = str2[j]
  THEN dp[i - 1][j - 1]
  ELSE Min3(dp[i - 1][j] + 1, dp[i][j - 1] + 1, dp[i][j - 1] + 1)

\* LevCell that compares str1[i] with str2[j - 1]: the 0-based index i - 1
\* of the code taken for one string only.
LevCellShifted(dp, str1, str2, i, j) ==
  IF j > 1 /\ str1[i] = str2[j - 1]
  THEN dp[i - 1][j - 1]
  ELSE Min3(dp[i - 1][j] + 1, dp[i][j - 1] + 1, dp[i - 1][j - 1] + 1)

\* The value the inner loop body writes to dp[i][j].
LevCell(dp, str1, str2, i, j) ==
  IF str1[i] = str2[j]
  THEN dp[i - 1][j - 1]
  ELSE Min3(dp[i - 1][j] + 1,      \* Deletion
            dp[i][j - 1] + 1,      \* Insertion
            dp[i - 1][j - 1] + 1)  \* Substitution

\* The nested loops for i = 1..m, for j = 1..n, run from cell (i, j) on.
RECURSIVE LevFill(_, _, _, _, _)
LevFill(dp, str1, str2, i, j) ==
  IF i > Len(str1) THEN dp
  ELSE IF j > Len(str2) THEN LevFill(dp, str1, str2, i + 1, 1)
  ELSE LevFill([dp EXCEPT ![i][j] = LevCell(dp, str1, str2, i, j)],
               str1, str2, i, j + 1)

\* The filled matrix of one call.
LevMatrix(str1, str2) ==
  LevFill(LevInitDp(Len(str1), Len(str2)), str1, str2, 1, 1)

calculateLevenshteinDistance(str1, str2) ==
  LevMatrix(str1, str2)[Len(str1)][Len(str2)]

(***************************************************************************)
(* Edit distance by its definition: the least number of single-character   *)
(* insertions, deletions and substitutions that turn one string into the   *)
(* other, found by breadth-first search over edited strings.               *)
(***************************************************************************)
\* Intermediate strings may be one character longer than any input.
WorkLen == MaxLen + 1

RemoveAt(s, k) == [x \in 1..(Len(s) - 1) |-> IF x < k THEN s[x] ELSE s[x + 1]]

InsertAt(s, k, c) ==
  [x \in 1..(Len(s) + 1) |->
     IF x < k THEN s[x] ELSE IF x = k THEN c ELSE s[x - 1]]

\* Every string one edit operation away from s.
EditStep(s) ==
     {RemoveAt(s, k) : k \in 1..Len(s)}
  \cup UNION {{[s EXCEPT ![k] = c] : c \in Alphabet \ {s[k]}} : k \in 1..Len(s)}
  \cup (IF Len(s) < WorkLen
        THEN {InsertAt(s, k, c) : k \in 1..(Len(s) + 1), c \in Alphabet}
        ELSE {})

RECURSIVE EditSearch(_, _, _)
EditSearch(reached, goal, k) ==
  IF goal \in reached THEN k
  ELSE EditSearch(reached \cup UNION {EditStep(s) : s \in reached}, goal, k + 1)

MinEdits(a, b) == EditSearch({a}, b, 0)

(***************************************************************************)
(* random, utils.ts 41-43.                                                 *)
(***************************************************************************)
\* Numbers Math.random() can return: the fractions k/d of [0, 1), as
\* <<k, d>>, for every denominator up to MaxSpan (so that for every
\* max - min up to MaxSpan each k/(max - min) is among them).
RandomUnits == UNION {{<<k, d>> : k \in 0..(d - 1)} : d \in 1..MaxSpan}

\* Math.floor(Math.random() * (max - min)) + min, for Math.random() = u.
random(min, max, u) == ((u[1] * (max - min)) \div u[2]) + min

\* The state of random before a call.
RandIdle ==
  /\ randUnit = <<0, 1>>
  /\ randResult = <<>>

\* null, as the value of a timer field (setTimeout returns ids above 0).
Null == 0

\* A TooltipConfig with no timer set, and no timeout scheduled.
TipIdle ==
  /\ mouseenterTimer = Null
  /\ mouseleaveTimer = Null
  /\ timeouts = <<>>
  /\ poppers = 0

\* The state of the functions that no call is made of.
UiIdle ==
  /\ randMin = 0
  /\ randMax = 1
  /\ RandIdle
  /\ hidden = TRUE
  /\ TipIdle

\* A call random(randMin, randMax) in which Math.random() returns u.
RandomCall(u) ==
  /\ randUnit' = u
  /\ randResult' = <<random(randMin, randMax, u)>>
  /\ UNCHANGED <<randMin, randMax, tipVars, levVars, callVars>>

(***************************************************************************)
(* getRandomSamples, utils.ts 326-356.                                     *)
(***************************************************************************)
\* Values an item can have (two, so that a population can hold duplicates).
ItemValues == {"x", "y"}

\* Populations: arrays of at most MaxItems items.
Populations == UNION {[1..k -> ItemValues] : k \in 0..MaxItems}

\* Requested sizes: one negative, zero, and up to one more than the largest
\* population.
Sizes == -1..(MaxItems + 1)

\* Seeds: the default (seed = 1212) and one other.
DefaultSeed == 1212
Seeds == {DefaultSeed, 1}

\* Numbers myRandomUniform() can return, as fractions <<numerator,
\* denominator>> of [0, 1): 0 (at most every threshold above zero), 1/2 (at
\* most the thresholds from 1/2 on, and equal to one of them) and 3/4
\* (above every threshold but 3/4 and 1).
Draws == {<<0, 1>>, <<1, 2>>, <<3, 4>>}

NoCall == [made |-> FALSE]

Min(x, y) == IF x <= y THEN x ELSE y

\* TargetSize with Math.max for Math.min.
TargetSizeMax(sz, n) == IF sz >= n THEN sz ELSE n

\* TargetSize without the clamp to the population: the size as requested.
TargetSizeUnclamped(sz, n) == sz

\* const targetSize = Math.min(size, items.length)
TargetSize(sz, n) == Min(sz, n)

\* AtMostThreshold with the comparison turned round (>= for <=).
AtLeastThreshold(d, t, n) ==
  IF n = 0 THEN FALSE ELSE d[1] * n >= t * d[2]

\* myRandomUniform() <= threshold, where threshold = targetSize / n is an
\* IEEE quotient: n = 0 gives Infinity for a positive targetSize, and NaN or
\* -Infinity (no number is <= it) otherwise.
AtMostThreshold(d, t, n) ==
  IF n = 0 THEN t > 0 ELSE d[1] * n <= t * d[2]

\* NewGenerator for a generator made once and shared by all calls: a call
\* goes on where the previous call stopped.
SharedGenerator(pos) == pos

\* The position in its sequence of a generator made by randomLcg(seed): a
\* new generator per call, which starts at the beginning of the sequence
\* whatever position pos the previous call's generator reached.
NewGenerator(pos) == 0

\* WhileCond with !== for <.
WhileCondNotEqual(len, t) == len # t

\* The loop condition of the while loop.
WhileCond(len, t) == len < t

\* MayPick without the look-up in sampledIndexes.
MayPickAny(rep, k, indexes) == TRUE

\* replace || !sampledIndexes.has(i)
MayPick(rep, k, indexes) == rep \/ k \notin indexes

\* if (sampledItems.length >= targetSize) break
EnoughSampled(len, t) == len >= t

\* The numbers the generator of this call can return next. The sequence is
\* fixed by the seed: a call that repeats the previous call's seed gets the
\* numbers that call got, and numbers nobody has seen yet are arbitrary.
NextDraws ==
  IF isRepeat /\ drawn < Len(prev.draws)
  THEN {prev.draws[drawn + 1]}
  ELSE Draws

\* The call state before any call.
CallIdle ==
  /\ call = "none"
  /\ pc = "idle"
  /\ outcome = "none"
  /\ ret = <<>>
  /\ chunks = <<>>
  /\ targetSize = 0
  /\ sampledItems = <<>>
  /\ sampledIndexes = {}
  /\ picked = <<>>
  /\ itemIdx = 0
  /\ passes = 0
  /\ drawn = 0
  /\ draws = <<>>
  /\ isRepeat = FALSE
  /\ prev = NoCall

\* No call is running.
AtRest == pc \in {"idle", "done"}

\* A call getRandomSamples(items, size, seed, replace): lines 332-337.
SampleCall ==
  /\ AtRest
  /\ call' = "sample"
  /\ pc' = "while"
  /\ outcome' = "none"
  /\ ret' = <<>>
  /\ targetSize' = TargetSize(size, Len(items))
  /\ sampledItems' = <<>>
  /\ sampledIndexes' = {}
  /\ picked' = <<>>
  /\ itemIdx' = 0
  /\ passes' = 0
  /\ drawn' = NewGenerator(drawn)
  /\ draws' = <<>>
  /\ isRepeat' = prev.made
  /\ UNCHANGED <<uiVars, levVars, chunks, inputVars, prev>>

\* while (sampledItems.length < targetSize): line 340, and the start of the
\* for loop, line 341.
WhileTest ==
  /\ pc = "while"
  /\ IF WhileCond(Len(sampledItems), targetSize)
     THEN /\ pc' = "for"
          /\ itemIdx' = 0
          /\ passes' = Min(passes + 1, MaxPasses)
     ELSE /\ pc' = "return"
          /\ UNCHANGED <<itemIdx, passes>>
  /\ UNCHANGED <<uiVars, levVars, call, outcome, ret, chunks, inputVars, targetSize,
                 sampledItems, sampledIndexes, picked, drawn, draws,
                 isRepeat, prev>>

\* The for loop has passed the last item: line 341.
ForEnd ==
  /\ pc = "for"
  /\ itemIdx >= Len(items)
  /\ pc' = "while"
  /\ UNCHANGED <<uiVars, levVars, call, outcome, ret, chunks, inputVars, targetSize,
                 sampledItems, sampledIndexes, picked, itemIdx, passes,
                 drawn, draws, isRepeat, prev>>

\* The item may not be picked: the condition of line 343 is false, and no
\* number is drawn.
ForSkip ==
  /\ pc = "for"
  /\ itemIdx < Len(items)
  /\ ~MayPick(replace, itemIdx, sampledIndexes)
  /\ itemIdx' = itemIdx + 1
  /\ UNCHANGED <<uiVars, levVars, call, pc, outcome, ret, chunks, inputVars,
                 targetSize, sampledItems, sampledIndexes, picked, passes,
                 drawn, draws, isRepeat, prev>>

\* What a call to myRandomUniform() that returns d does to the generator.
Drawing(d) ==
  /\ drawn' = Min(drawn + 1, MaxTape + 1)
  /\ draws' = IF drawn < MaxTape THEN Append(draws, d) ELSE draws

\* The number drawn is above the threshold: line 344 is false.
ForReject(d) ==
  /\ pc = "for"
  /\ itemIdx < Len(items)
  /\ MayPick(replace, itemIdx, sampledIndexes)
  /\ d \in NextDraws
  /\ ~AtMostThreshold(d, targetSize, Len(items))
  /\ Drawing(d)
  /\ itemIdx' = itemIdx + 1
  /\ UNCHANGED <<uiVars, levVars, call, pc, outcome, ret, chunks, inputVars,
                 targetSize, sampledItems, sampledIndexes, picked, passes,
                 isRepeat, prev>>

\* The number drawn is at most the threshold: lines 346-350.
ForAccept(d) ==
  /\ pc = "for"
  /\ itemIdx < Len(items)
  /\ MayPick(replace, itemIdx, sampledIndexes)
  /\ d \in NextDraws
  /\ AtMostThreshold(d, targetSize, Len(items))
  /\ Drawing(d)
  /\ sampledIndexes' = sampledIndexes \cup {itemIdx}
  /\ sampledItems' = Append(sampledItems, items[itemIdx + 1])
  /\ picked' = Append(picked, itemIdx)
  /\ IF EnoughSampled(Len(sampledItems) + 1, targetSize)
     THEN pc' = "while" /\ itemIdx' = itemIdx
     ELSE pc' = pc /\ itemIdx' = itemIdx + 1
  /\ UNCHANGED <<uiVars, levVars, call, outcome, ret, chunks, inputVars, targetSize,
                 passes, isRepeat, prev>>

\* return sampledItems: line 355.
SampleReturn ==
  /\ pc = "return"
  /\ pc' = "done"
  /\ outcome' = "returned"
  /\ ret' = sampledItems
  /\ prev' = IF ~isRepeat /\ drawn <= MaxTape
             THEN [made |-> TRUE, draws |-> draws, result |-> sampledItems]
             ELSE prev
  /\ UNCHANGED <<uiVars, levVars, call, chunks, inputVars, targetSize, sampledItems,
                 sampledIndexes, picked, itemIdx, passes, drawn, draws,
                 isRepeat>>

\* One step of the sampling loop.
SampleStep ==
  \/ WhileTest
  \/ ForEnd
  \/ ForSkip
  \/ \E d \in Draws : ForReject(d)
  \/ \E d \in Draws : ForAccept(d)
  \/ SampleReturn

(***************************************************************************)
(* chunk, utils.ts 604-614.                                                *)
(***************************************************************************)
\* array.slice(from, to) on 0-based positions.
Slice(arr, from, to) ==
  [x \in 1..(Min(to, Len(arr)) - from) |-> arr[from + x]]

\* The for loop from position k: result.push(array.slice(k, k + size)).
RECURSIVE ChunkFrom(_, _, _, _)
ChunkFrom(arr, sz, k, result) ==
  IF k < Len(arr)
  THEN ChunkFrom(arr, sz, k + sz, Append(result, Slice(arr, k, k + sz)))
  ELSE result

\* if (size <= 0) throw
ChunkThrows(sz) == sz <= 0

\* A call chunk(items, size).
ChunkCall ==
  /\ AtRest
  /\ call' = "chunk"
  /\ pc' = "done"
  /\ IF ChunkThrows(size)
     THEN outcome' = "threw" /\ chunks' = <<>>
     ELSE outcome' = "returned" /\ chunks' = ChunkFrom(items, size, 0, <<>>)
  /\ UNCHANGED <<uiVars, levVars, ret, inputVars, targetSize, sampledItems,
                 sampledIndexes, picked, itemIdx, passes, drawn, draws,
                 isRepeat, prev>>

(***************************************************************************)
(* The machine of calls: one call at a time, each run to its end.          *)
(***************************************************************************)
CallInit ==
  /\ words = [k \in 1..3 |-> <<>>]
  /\ dist = [p \in Pairs |-> <<>>]
  /\ items \in Populations
  /\ size \in Sizes
  /\ seed \in Seeds
  /\ replace \in BOOLEAN
  /\ CallIdle
  /\ UiIdle

CallNext ==
  \/ SampleCall
  \/ SampleStep
  \/ ChunkCall

CallSpec == CallInit /\ [][CallNext]_vars

\* The loop is never starved, and a number at most the threshold is drawn
\* again and again as long as numbers are drawn.
CallFair ==
  /\ WF_vars(SampleStep)
  /\ SF_vars(\E d \in Draws : ForAccept(d))

FairCallSpec == CallSpec /\ CallFair

(***************************************************************************)
(* The edit-distance machine: three strings are drawn, and the distance    *)
(* of each pair is computed by a call.                                     *)
(***************************************************************************)
LevInit ==
  /\ words \in [1..3 -> StringsUpTo(MaxLen)]
  /\ dist = [p \in Pairs |-> <<>>]
  /\ items = <<>>
  /\ size = 0
  /\ seed = DefaultSeed
  /\ replace = FALSE
  /\ CallIdle
  /\ UiIdle

LevCall(p) ==
  /\ dist[p] = <<>>
  /\ dist' = [dist EXCEPT ![p] =
        <<calculateLevenshteinDistance(words[p[1]], words[p[2]])>>]
  /\ UNCHANGED <<words, callVars, uiVars>>

LevNext == \E p \in Pairs : LevCall(p)

LevSpec == LevInit /\ [][LevNext]_vars

\* The same machine with the third string empty: the distance is computed
\* for every pair of the first two strings, and from each to the empty one.
LevPairInit == LevInit /\ words[3] = <<>>

LevPairSpec == LevPairInit /\ [][LevNext]_vars

Called(p) == dist[p] # <<>>

\* The distance returned for pair p.
Dist(p) == dist[p][1]

(***************************************************************************)
(* Claims about calculateLevenshteinDistance.                              *)
(***************************************************************************)
\* C1: for every pair of strings, calculateLevenshteinDistance returns a
\* non-negative integer equal to the least number of single-character
\* insertions, deletions and substitutions that turn the first string into
\* the second.
LevenshteinIsMinEdits ==
  \A p \in Pairs :
    Called(p) => /\ Dist(p) >= 0
                 /\ Dist(p) = MinEdits(words[p[1]], words[p[2]])

\* C1 witness: a distance of two edits was computed between two non-empty
\* strings of different lengths.
LevenshteinIsMinEditsWitness ==
  /\ Called(<<1, 2>>)
  /\ Dist(<<1, 2>>) = 2
  /\ Len(words[1]) = MaxLen
  /\ Len(words[2]) = MaxLen - 1
  /\ MinEdits(words[1], words[2]) = 2

\* C9: the triangle inequality: the distance from the first string to the
\* third is at most the distance from the first to the second plus the
\* distance from the second to the third.
LevenshteinTriangle ==
  (\A p \in Pairs : Called(p)) =>
     Dist(<<1, 3>>) <= Dist(<<1, 2>>) + Dist(<<2, 3>>)

\* C9 witness: the three distances are computed between three different
\* non-empty strings, and the inequality is tight.
LevenshteinTriangleWitness ==
  /\ \A p \in Pairs : Called(p)
  /\ \A p \in Pairs : words[p[1]] # words[p[2]]
  /\ \A k \in 1..3 : Len(words[k]) > 0
  /\ Dist(<<1, 3>>) = Dist(<<1, 2>>) + Dist(<<2, 3>>)

\* C10: the distance between the empty string and a string s, in either
\* order, is the length of s (0 between two empty strings), and the call
\* gives a number, never a cell without a value.
LevenshteinEmpty ==
  \A p \in Pairs :
    Called(p) =>
      /\ words[p[1]] = <<>> => Dist(p) = Len(words[p[2]])
      /\ words[p[2]] = <<>> => Dist(p) = Len(words[p[1]])

\* C10 witness: the distance was computed from the empty string to a string
\* of full length, from a string of full length to the empty string, and
\* between two empty strings.
LevenshteinEmptyWitness ==
  /\ \A p \in Pairs : Called(p)
  /\ words[1] = <<>> /\ Len(words[2]) = MaxLen /\ words[3] = <<>>
  /\ Dist(<<1, 2>>) = MaxLen
  /\ Dist(<<2, 3>>) = MaxLen
  /\ Dist(<<1, 3>>) = 0

(***************************************************************************)
(* Claims about getRandomSamples and chunk.                                *)
(***************************************************************************)
\* A call of getRandomSamples has returned.
SampleDone == call = "sample" /\ pc = "done"

\* A call of getRandomSamples is in its loop.
SampleRunning == call = "sample" /\ pc \in {"while", "for", "return"}

\* How often value v occurs in sequence sq.
Count(sq, v) == Cardinality({k \in 1..Len(sq) : sq[k] = v})

\* C2: for size >= 0 the returned sample has length min(size, |items|)
\* without replacement and length exactly size with replacement (stated for
\* the populations that hold an item to draw).
SampleLength ==
  (SampleDone /\ size >= 0 /\ Len(items) > 0) =>
     Len(ret) = IF replace THEN size ELSE Min(size, Len(items))

\* C3: without replacement, at every point of the loop and in the result,
\* the accepted indexes are pairwise distinct and as many as the sampled
\* items; an index accepted twice implies replacement.
NoIndexTwice ==
  call = "sample" =>
    /\ Len(picked) = Len(sampledItems)
    /\ \A k \in 1..Len(picked) :
         picked[k] \in sampledIndexes /\ sampledItems[k] = items[picked[k] + 1]
    /\ ~replace =>
         /\ \A a, b \in 1..Len(picked) : a # b => picked[a] # picked[b]
         /\ Cardinality(sampledIndexes) = Len(sampledItems)
    /\ (\E a, b \in 1..Len(picked) : a # b /\ picked[a] = picked[b]) => replace
    /\ SampleDone => ret = sampledItems

\* C3 witness: without replacement, in its second pass, the loop stands at
\* an index it has accepted before.
NoIndexTwiceWitness ==
  /\ call = "sample" /\ ~replace
  /\ pc = "for"
  /\ passes = 2
  /\ itemIdx \in sampledIndexes
  /\ Len(sampledItems) < targetSize

\* C4 as claimed: a call with a negative size ends with an error.
NegativeSizeRejected ==
  (SampleDone /\ size < 0) => outcome = "threw"

\* C4 as amended: a call with a negative size is not rejected: it never
\* enters the loop, draws no number, and returns the empty array with no
\* error.
NegativeSizeReturnsEmpty ==
  (call = "sample" /\ size < 0) =>
    /\ outcome # "threw"
    /\ passes = 0
    /\ drawn = 0
    /\ sampledItems = <<>>
    /\ SampleDone => (outcome = "returned" /\ ret = <<>>)

\* C4 witness: a call with a negative size on a full population returned.
NegativeSizeWitness ==
  /\ SampleDone
  /\ size < 0
  /\ Len(items) = MaxItems
  /\ outcome = "returned"

\* C5 as claimed: a call of either function with a size of zero or less
\* returns an empty result and raises no exception.
NonPositiveSizeReturnsEmpty ==
  (pc = "done" /\ size <= 0) =>
    /\ outcome = "returned"
    /\ call = "sample" => ret = <<>>
    /\ call = "chunk" => chunks = <<>>

\* C5 as amended: with a size of zero or less, getRandomSamples returns the
\* empty array and raises no exception, and chunk throws its error.
NonPositiveSizeOutcome ==
  (pc = "done" /\ size <= 0) =>
    /\ call = "sample" => (outcome = "returned" /\ ret = <<>>)
    /\ call = "chunk" => outcome = "threw"

\* C5 witness: chunk was called with size zero on a non-empty array, after
\* getRandomSamples had returned for the same size.
NonPositiveSizeWitness ==
  /\ call = "chunk" /\ pc = "done"
  /\ size = 0
  /\ Len(items) > 0
  /\ outcome = "threw"
  /\ prev.made

\* While the loop runs short of its target, some item may still be picked
\* and a number at most the threshold exists.
CanProgress ==
  (SampleRunning /\ Len(items) > 0 /\ WhileCond(Len(sampledItems), targetSize)) =>
    /\ \E k \in 0..(Len(items) - 1) : MayPick(replace, k, sampledIndexes)
    /\ \E d \in Draws : AtMostThreshold(d, targetSize, Len(items))

\* C6: for a non-empty population and a size above zero, with or without
\* replacement, the loop eventually reaches its target count and the call
\* returns, and it never scans without an item it could still accept.
SamplingTerminates ==
  /\ [](CanProgress)
  /\ (SampleRunning /\ Len(items) > 0 /\ size > 0)
       ~> (SampleDone /\ Len(ret) = targetSize)

\* C6 witness: a call on a non-empty population returned its target count
\* after numbers above the threshold had sent it into a second pass.
SamplingTerminatesWitness ==
  /\ SampleDone
  /\ Len(items) > 0 /\ size > 0
  /\ passes = 2
  /\ Len(ret) = targetSize

\* C7: without replacement and with size >= |items|, the call returns the
\* whole population (the same multiset as items) within one pass of the for
\* loop, whatever numbers are drawn.
WholePopulationInOnePass ==
  (call = "sample" /\ ~replace /\ size >= Len(items)) =>
    /\ passes <= 1
    /\ SampleDone =>
         /\ Len(ret) = Len(items)
         /\ \A v \in ItemValues : Count(ret, v) = Count(items, v)

\* C7 witness: the call returned a full population that holds both values,
\* one of them twice, having drawn a number other than 0.
WholePopulationWitness ==
  /\ SampleDone /\ ~replace
  /\ size = Len(items)
  /\ Len(items) = MaxItems
  /\ \A v \in ItemValues : Count(items, v) > 0
  /\ \E k \in 1..Len(draws) : draws[k][1] > 0
  /\ passes = 1

\* C8: a call that repeats an earlier call (the same items, size, seed and
\* replace) returns the sequence the earlier call returned.
SampleDeterministic ==
  (SampleDone /\ isRepeat) => ret = prev.result

\* C8 witness: a repeated call returned a sample of two items or more after
\* a number above the threshold was drawn.
SampleDeterministicWitness ==
  /\ SampleDone /\ isRepeat
  /\ Len(ret) >= 2
  /\ \E k \in 1..Len(draws) : ~AtMostThreshold(draws[k], targetSize, Len(items))

(***************************************************************************)
(* The machine of random: two integers min < max are drawn, and random is  *)
(* called on them again and again.                                         *)
(***************************************************************************)
SamplerIdle ==
  /\ words = [k \in 1..3 |-> <<>>]
  /\ dist = [p \in Pairs |-> <<>>]
  /\ items = <<>>
  /\ size = 0
  /\ seed = DefaultSeed
  /\ replace = FALSE
  /\ CallIdle

RandInit ==
  /\ randMin \in (-MaxSpan)..MaxSpan
  /\ randMax \in (randMin + 1)..(randMin + MaxSpan)
  /\ RandIdle
  /\ hidden = TRUE
  /\ TipIdle
  /\ SamplerIdle

RandNext == \E u \in RandomUnits : RandomCall(u)

RandSpec == RandInit /\ [][RandNext]_vars

(***************************************************************************)
(* Claims about random.                                                    *)
(***************************************************************************)
\* C11: for integers min < max, random(min, max) returns a number of the
\* closed interval [min, max], and every integer from min to max, max
\* included, is a possible result.
RandomClosedInterval ==
  randResult # <<>> =>
    /\ randResult[1] \in randMin..randMax
    /\ \A v \in randMin..randMax :
         \E u \in RandomUnits : random(randMin, randMax, u) = v

(***************************************************************************)
(* tooltipMouseEnter and tooltipMouseLeave, utils.ts 460-540, on one       *)
(* TooltipConfig (a call with tooltip = null does nothing).                *)
(***************************************************************************)
\* The timeouts of kind k ("show" or "hide") that are pending.
Pending(k) ==
  {id \in 1..Len(timeouts) :
     timeouts[id].kind = k /\ timeouts[id].status = "pending"}

\* if (timer !== null) clearTimeout(timer): the table after it. Clearing a
\* timeout that has fired or was cleared does nothing.
ClearTimeout(table, timer) ==
  [id \in 1..Len(table) |->
     IF id = timer /\ table[id].status = "pending"
     THEN [table[id] EXCEPT !.status = "cleared"]
     ELSE table[id]]

\* setTimeout(callback of kind k, delay): the table after it; the id
\* returned is the new length.
SetTimeout(table, k) ==
  Append(table, [kind |-> k, status |-> "pending", beforeLeave |-> FALSE])

\* The table with every pending show timeout marked as scheduled before a
\* call of tooltipMouseLeave.
MarkBeforeLeave(table) ==
  [id \in 1..Len(table) |->
     IF table[id].kind = "show" /\ table[id].status = "pending"
     THEN [table[id] EXCEPT !.beforeLeave = TRUE]
     ELSE table[id]]

\* updatePopperTooltip: one more computePosition promise.
PopperCalled == Min(poppers + 1, MaxPoppers)

\* tooltipMouseEnter(e, name, position, tooltip, delay): lines 477-512.
TooltipMouseEnter ==
  /\ IF hidden
     THEN /\ Len(timeouts) < MaxTimers
          /\ timeouts' = SetTimeout(ClearTimeout(timeouts, mouseenterTimer),
                                    "show")
          /\ mouseenterTimer' = Len(timeouts) + 1
          /\ UNCHANGED <<mouseleaveTimer, poppers>>
     ELSE /\ timeouts' = ClearTimeout(timeouts, mouseleaveTimer)
          /\ mouseleaveTimer' = Null
          /\ poppers' = PopperCalled
          /\ UNCHANGED mouseenterTimer
  /\ UNCHANGED <<hidden, randVars, levVars, callVars>>

\* tooltipMouseLeave without lines 525-528: the show timer is left alone.
TooltipMouseLeaveKeepsShow ==
  /\ Len(timeouts) < MaxTimers
  /\ timeouts' = SetTimeout(
        ClearTimeout(MarkBeforeLeave(timeouts), mouseleaveTimer), "hide")
  /\ mouseleaveTimer' = Len(timeouts) + 1
  /\ UNCHANGED <<mouseenterTimer, hidden, poppers, randVars, levVars,
                 callVars>>

\* tooltipMouseLeave(tooltip, delay): lines 524-539.
TooltipMouseLeave ==
  /\ Len(timeouts) < MaxTimers
  /\ timeouts' = SetTimeout(
        ClearTimeout(ClearTimeout(MarkBeforeLeave(timeouts), mouseenterTimer),
                     mouseleaveTimer),
        "hide")
  /\ mouseenterTimer' = Null
  /\ mouseleaveTimer' = Len(timeouts) + 1
  /\ UNCHANGED <<hidden, poppers, randVars, levVars, callVars>>

\* A pending timeout fires and its callback runs: lines 484-496 (show) and
\* 535-538 (hide).
TimerFire(id) ==
  /\ id \in Pending("show") \cup Pending("hide")
  /\ timeouts' = [timeouts EXCEPT ![id].status = "fired"]
  /\ IF timeouts[id].kind = "show"
     THEN /\ poppers' = PopperCalled
          /\ hidden' = FALSE
          /\ mouseenterTimer' = Null
          /\ UNCHANGED mouseleaveTimer
     ELSE /\ hidden' = TRUE
          /\ mouseleaveTimer' = Null
          /\ UNCHANGED <<mouseenterTimer, poppers>>
  /\ UNCHANGED <<randVars, levVars, callVars>>

\* A computePosition promise resolves: lines 427-431 and 442-446 hide the
\* tooltip when the reference is hidden, and show it otherwise.
PopperResolve(referenceHidden) ==
  /\ poppers > 0
  /\ poppers' = poppers - 1
  /\ hidden' = referenceHidden
  /\ UNCHANGED <<mouseenterTimer, mouseleaveTimer, timeouts, randVars,
                 levVars, callVars>>

TipInit ==
  /\ hidden \in BOOLEAN
  /\ TipIdle
  /\ randMin = 0
  /\ randMax = 1
  /\ RandIdle
  /\ SamplerIdle

TipNext ==
  \/ TooltipMouseEnter
  \/ TooltipMouseLeave
  \/ \E id \in 1..MaxTimers : TimerFire(id)
  \/ \E referenceHidden \in BOOLEAN : PopperResolve(referenceHidden)

TipSpec == TipInit /\ [][TipNext]_vars

(***************************************************************************)
(* Claims about the tooltip's timers.                                      *)
(***************************************************************************)
\* C12: whatever the order of tooltipMouseEnter calls, tooltipMouseLeave
\* calls and timeouts firing, mouseenterTimer (mouseleaveTimer) is non-null
\* exactly when one show (hide) timeout is pending, and then holds its id;
\* so at most one timeout of each kind is pending; and no show timeout
\* scheduled before a tooltipMouseLeave call is pending or fires after it.
TimersTracked ==
  /\ Pending("show") = IF mouseenterTimer = Null THEN {} ELSE {mouseenterTimer}
  /\ Pending("hide") = IF mouseleaveTimer = Null THEN {} ELSE {mouseleaveTimer}
  /\ Cardinality(Pending("show")) <= 1
  /\ Cardinality(Pending("hide")) <= 1
  /\ \A id \in 1..Len(timeouts) :
       timeouts[id].beforeLeave => timeouts[id].status = "cleared"

\* C12 witness: a show and a hide timeout are pending together, after a
\* show timeout was cleared by tooltipMouseLeave and another timeout fired.
TimersTrackedWitness ==
  /\ mouseenterTimer # Null
  /\ mouseleaveTimer # Null
  /\ \E id \in 1..Len(timeouts) : timeouts[id].beforeLeave
  /\ \E id \in 1..Len(timeouts) : timeouts[id].status = "fired"

=============================================================================
